---- MODULE Spec2Model ----
(***************************************************************************)
(* disctools/context.py: TargetContext, the invocation context of one      *)
(* command run.  The state is the context's fields (guild, author, me,     *)
(* _target) and the record of the call the command handler made last.      *)
(***************************************************************************)
EXTENDS Integers, Sequences, FiniteSets, TLC

\* ------------------------------------------------------------------ bounds
NumIds == 3
MaxRank == 1
MaxLen == 2

Ids == 1..NumIds
Ranks == 0..MaxRank

\* ----------------------------------------------------------- python values
\* None
NoneVal == [kind |-> "NoneType"]

\* discord.Member: a user of a guild, with the attribute top_role
Member(i, r) == [kind |-> "Member", id |-> i, top_role |-> r]

\* discord.User: no attribute top_role
User(i) == [kind |-> "User", id |-> i]

Members == {Member(i, r) : i \in Ids, r \in Ranks}
Users == {User(i) : i \in Ids}
Actors == Members \cup Users

\* a python list
List(s) == [kind |-> "list", items |-> s]

SeqsUpTo(S, n) == UNION {[1..k -> S] : k \in 0..n}
Lists == {List(s) : s \in SeqsUpTo(Actors, MaxLen)}

\* what a caller may pass for a `users` parameter typed Targets
TargetsArgs == Actors \cup Lists
\* ... and for one typed Optional[...]
OptionalArgs == {NoneVal} \cup TargetsArgs

\* discord.Guild, of which the code reads .owner only (a Member, or None
\* when the owner is not in the member cache); the owner's top_role is never
\* read, the code compares with the owner by ==
Guild(o) == [kind |-> "Guild", owner |-> o]
Guilds == {Guild(Member(i, 0)) : i \in Ids} \cup {Guild(NoneVal)}

\* ctx.author and ctx.me: ids are interchangeable, so the author is the user
\* of id 1 and the bot the user of the last id, each of either type
Authors == {a \in Actors : a.id = 1}
Bots == {a \in Actors : a.id = NumIds}

\* the payload of a direct message (*args, **kwargs of whisper)
Payloads == {"hello"}

\* isinstance(v, Sequence)
IsSequence(v) == v.kind = "list"

\* isinstance(v, discord.Member)
IsMember(v) == v.kind = "Member"

\* hasattr(v, "top_role")
HasTopRole(v) == "top_role" \in DOMAIN v

\* a == b of discord.py's users: both are users and the ids agree
PyEq(a, b) ==
    /\ a.kind \in {"Member", "User"}
    /\ b.kind \in {"Member", "User"}
    /\ a.id = b.id

\* x in lst
PyIn(x, lst) == \E i \in 1..Len(lst.items) : PyEq(x, lst.items[i])

\* the arguments of a call of whisper
WhisperArgs(users, payload) ==
    [kind |-> "arguments", users |-> users, payload |-> payload]

\* ------------------------------------------------------------ outcomes
\* a call returns a value (a tuple here, () for None) or raises an exception,
\* whose message names the type of the value it met
Return(v) == [exc |-> "none", value |-> v]
Raise(e, v) == [exc |-> e, value |-> <<v.kind>>]

\* --------------------------------------------------------- pure functions
\* a plausible slip: the isinstance test the wrong way round
_maybe_sequence_inverted(doubtful) ==
    IF IsSequence(doubtful) THEN List(<<doubtful>>) ELSE doubtful

_maybe_sequence(doubtful) ==
    IF ~IsSequence(doubtful) THEN List(<<doubtful>>) ELSE doubtful

\* a plausible slip: `is` where the code has ==
is_user_target_identity(tgt, user) ==
    \E i \in 1..Len(tgt.items) : user = tgt.items[i]

\* user in self.targets
is_user_target(tgt, user) == PyIn(user, tgt)

\* self.author in self.targets
is_author_target(tgt, a) == PyIn(a, tgt)

\* a plausible slip: the test for the owner left out
UserIsOwner_never(g, user) == FALSE

\* user == self.guild.owner
UserIsOwner(g, user) == PyEq(user, g.owner)

\* a plausible slip: the owner among the candidates is compared by rank only
MemberIsOwner_never(g, member) == FALSE

\* member == self.guild.owner
MemberIsOwner(g, member) == PyEq(member, g.owner)

\* a plausible slip: >= where the code has >
RankAbove_or_equal(member, user) == member.top_role >= user.top_role

\* member.top_role > user.top_role, for a member that has the attribute
RankAbove(member, user) == member.top_role > user.top_role

\* a plausible slip: without an explicit argument, no candidates at all
ResolveUsers_no_default(tgt, users) ==
    IF users = NoneVal THEN List(<<>>) ELSE _maybe_sequence(users)

\* users = targets if users is None else _maybe_sequence(users)
ResolveUsers(tgt, users) ==
    IF users = NoneVal THEN tgt ELSE _maybe_sequence(users)

\* a plausible slip: a candidate without top_role is passed over
RECURSIVE AboveLoop_skipping(_, _, _, _)
AboveLoop_skipping(g, user, items, i) ==
    IF i > Len(items) THEN Return(<<TRUE, NoneVal>>)
    ELSE LET member == items[i] IN
         IF MemberIsOwner(g, member) THEN Return(<<FALSE, member>>)
         ELSE IF ~HasTopRole(member) THEN AboveLoop_skipping(g, user, items, i + 1)
         ELSE IF RankAbove(member, user) THEN Return(<<FALSE, member>>)
         ELSE AboveLoop_skipping(g, user, items, i + 1)

\* the loop as the code has it, for the variant below
RECURSIVE AboveLoop_novalidation(_, _, _, _)
AboveLoop_novalidation(g, user, items, i) ==
    IF i > Len(items) THEN Return(<<TRUE, NoneVal>>)
    ELSE LET member == items[i] IN
         IF MemberIsOwner(g, member) THEN Return(<<FALSE, member>>)
         ELSE IF ~HasTopRole(member) THEN Raise("TypeError", member)
         ELSE IF RankAbove(member, user) THEN Return(<<FALSE, member>>)
         ELSE AboveLoop_novalidation(g, user, items, i + 1)

\* a plausible slip: every candidate is validated before the first is compared
AboveLoop_validating(g, user, items, i) ==
    IF \E k \in 1..Len(items) : ~HasTopRole(items[k])
    THEN Raise("TypeError",
               items[CHOOSE k \in 1..Len(items) :
                        /\ ~HasTopRole(items[k])
                        /\ \A j \in 1..(k - 1) : HasTopRole(items[j])])
    ELSE AboveLoop_novalidation(g, user, items, i)

\* the for loop of _above_check, from position i of the candidates on; reading
\* member.top_role of a value without the attribute raises AttributeError,
\* which the except clause turns into TypeError
RECURSIVE AboveLoop(_, _, _, _)
AboveLoop(g, user, items, i) ==
    IF i > Len(items) THEN Return(<<TRUE, NoneVal>>)
    ELSE LET member == items[i] IN
         IF MemberIsOwner(g, member) THEN Return(<<FALSE, member>>)
         ELSE IF ~HasTopRole(member) THEN Raise("TypeError", member)
         ELSE IF RankAbove(member, user) THEN Return(<<FALSE, member>>)
         ELSE AboveLoop(g, user, items, i + 1)

_above_check(g, tgt, user, users) ==
    IF g = NoneVal THEN Raise("ValueError", g)
    ELSE IF UserIsOwner(g, user) THEN Return(<<TRUE, NoneVal>>)
    ELSE AboveLoop(g, user, ResolveUsers(tgt, users).items, 1)

\* a plausible slip: the guild is looked at before the type of the author
is_author_above_guild_first(g, tgt, a, users) ==
    IF g = NoneVal THEN Raise("ValueError", g)
    ELSE IF IsMember(a) THEN _above_check(g, tgt, a, users)
    ELSE Raise("TypeError", a)

is_author_above(g, tgt, a, users) ==
    IF IsMember(a) THEN _above_check(g, tgt, a, users)
    ELSE Raise("TypeError", a)

is_bot_above(g, tgt, m, users) ==
    IF IsMember(m) THEN _above_check(g, tgt, m, users)
    ELSE Raise("TypeError", m)

\* target.send(*args, **kwargs) for each target: a call of a coroutine function
\* that is not awaited makes a coroutine object and nothing more
whisper_coroutines(tgt, users, payload) ==
    LET us == _maybe_sequence(IF users = NoneVal THEN tgt ELSE users).items
    IN  [i \in 1..Len(us) |-> [to |-> us[i], payload |-> payload]]

\* ------------------------------------------------------------------ state
\* guild, author, me  the fields of the context the code reads
\* _target            the TargetSet
\* pc, op, arg, out   the handler's position: the call that returned last, its
\*                    argument and its outcome
\* created            the coroutine objects the last whisper made
\* scheduled          those of them handed to the event loop (awaited or
\*                    wrapped in a task) before whisper returned
VARIABLES guild, author, me, _target, pc, op, arg, out, created, scheduled

vars == <<guild, author, me, _target, pc, op, arg, out, created, scheduled>>

ctx == <<guild, author, me>>

\* TargetContext.__init__: self.targets = self.message.mentions
Init ==
    /\ guild \in {NoneVal} \cup Guilds
    /\ author \in Authors
    /\ me \in Bots
    /\ \E mentions \in Lists :
          /\ arg = mentions
          /\ _target = _maybe_sequence(mentions)
    /\ pc = "returned"
    /\ op = "__init__"
    /\ out = Return(<<>>)
    /\ created = <<>>
    /\ scheduled = <<>>

Called(o, a, r) ==
    /\ pc = "handler"
    /\ pc' = "returned"
    /\ op' = o
    /\ arg' = a
    /\ out' = r

SetTargets ==
    \E user \in TargetsArgs :
        /\ Called("targets.setter", user, Return(<<>>))
        /\ _target' = _maybe_sequence(user)
        /\ UNCHANGED <<ctx, created, scheduled>>

IsAuthorTarget ==
    /\ Called("is_author_target", NoneVal,
              Return(<<is_author_target(_target, author)>>))
    /\ UNCHANGED <<ctx, _target, created, scheduled>>

IsUserTarget ==
    \E user \in Actors :
        /\ Called("is_user_target", user, Return(<<is_user_target(_target, user)>>))
        /\ UNCHANGED <<ctx, _target, created, scheduled>>

IsAuthorAbove ==
    \E users \in OptionalArgs :
        /\ Called("is_author_above", users,
                  is_author_above(guild, _target, author, users))
        /\ UNCHANGED <<ctx, _target, created, scheduled>>

IsBotAbove ==
    \E users \in OptionalArgs :
        /\ Called("is_bot_above", users, is_bot_above(guild, _target, me, users))
        /\ UNCHANGED <<ctx, _target, created, scheduled>>

Whisper ==
    \E users \in OptionalArgs, payload \in Payloads :
        /\ Called("whisper", WhisperArgs(users, payload), Return(<<>>))
        /\ created' = whisper_coroutines(_target, users, payload)
        /\ scheduled' = <<>>
        /\ UNCHANGED <<ctx, _target>>

\* the handler takes the result and goes on; the coroutine objects whisper
\* made are unreachable and collected
Resume ==
    /\ pc = "returned"
    /\ pc' = "handler"
    /\ op' = "none"
    /\ arg' = NoneVal
    /\ out' = Return(<<>>)
    /\ created' = <<>>
    /\ scheduled' = <<>>
    /\ UNCHANGED <<ctx, _target>>

Next ==
    \/ SetTargets
    \/ IsAuthorTarget
    \/ IsUserTarget
    \/ IsAuthorAbove
    \/ IsBotAbove
    \/ Whisper
    \/ Resume

Spec == Init /\ [][Next]_vars

\* ================================================================ claims
\* the call the state records is a hierarchy check
HierarchyCall == pc = "returned" /\ op \in {"is_author_above", "is_bot_above"}

\* the privileged actor of that call
Privileged == IF op = "is_author_above" THEN author ELSE me

\* the candidates of that call: the explicit ones, a lone one as a sequence of
\* one, the TargetSet when there are none
Candidates ==
    IF arg = NoneVal THEN _target.items
    ELSE IF arg.kind = "list" THEN arg.items
    ELSE <<arg>>

\* candidate c blocks P: it equals the guild owner or its rank is strictly
\* greater than P's
Blocks(c, P) ==
    \/ PyEq(c, guild.owner)
    \/ (HasTopRole(c) /\ c.top_role > P.top_role)

Blocking == {i \in DOMAIN Candidates : Blocks(Candidates[i], Privileged)}

NonMembers == {i \in DOMAIN Candidates : ~IsMember(Candidates[i])}

Least(S) == CHOOSE i \in S : \A j \in S : i <= j

\* a hierarchy check in a guild, for a member that is not the guild owner
NonOwnerCheck ==
    /\ HierarchyCall
    /\ guild # NoneVal
    /\ IsMember(Privileged)
    /\ ~PyEq(Privileged, guild.owner)

\* C1: for a member P that is not the guild owner and candidates that are all
\* members, the check returns (True, None) exactly when no candidate blocks,
\* and (False, c) with c the first blocking candidate otherwise; an equal rank
\* does not block and no candidates give (True, None).
C1_FirstBlockingCandidate ==
    (NonOwnerCheck /\ NonMembers = {}) =>
        IF Blocking = {}
        THEN out = Return(<<TRUE, NoneVal>>)
        ELSE out = Return(<<FALSE, Candidates[Least(Blocking)]>>)

\* two different blocking candidates after one of P's own rank: the first of
\* the two is returned
C1_Witness ==
    /\ NonOwnerCheck
    /\ NonMembers = {}
    /\ Len(Candidates) = 2
    /\ Blocking = {1, 2}
    /\ Candidates[1] # Candidates[2]
    /\ out = Return(<<FALSE, Candidates[1]>>)

\* C2: when the privileged member equals the guild owner the check returns
\* (True, None) whatever the candidates are: any ranks, a candidate that is no
\* member, explicit or defaulted from the TargetSet.
C2_OwnerOutranksAll ==
    (/\ HierarchyCall
     /\ guild # NoneVal
     /\ IsMember(Privileged)
     /\ PyEq(Privileged, guild.owner)) => out = Return(<<TRUE, NoneVal>>)

\* the owner checks candidates defaulted from the TargetSet, a non-member and a
\* member of higher rank among them
C2_Witness ==
    /\ HierarchyCall
    /\ guild # NoneVal
    /\ IsMember(Privileged)
    /\ PyEq(Privileged, guild.owner)
    /\ arg = NoneVal
    /\ NonMembers # {}
    /\ \E i \in DOMAIN Candidates :
          /\ IsMember(Candidates[i])
          /\ Candidates[i].top_role > Privileged.top_role
    /\ out = Return(<<TRUE, NoneVal>>)

\* C3, as claimed: without a guild every hierarchy check fails with ValueError,
\* whatever the invoking actor or bot identity is.
C3_AlwaysValueError ==
    (HierarchyCall /\ guild = NoneVal) => out.exc = "ValueError"

\* C3, amended: without a guild a hierarchy check never returns a result; it
\* fails with ValueError when the privileged actor is a member and with
\* TypeError when it is not, whatever the candidates are.
C3_NoGuildFails ==
    (HierarchyCall /\ guild = NoneVal) =>
        out.exc = (IF IsMember(Privileged) THEN "ValueError" ELSE "TypeError")

\* no guild, a member as privileged actor, explicit candidates: ValueError
C3_Witness ==
    /\ HierarchyCall
    /\ guild = NoneVal
    /\ IsMember(Privileged)
    /\ arg # NoneVal
    /\ out.exc = "ValueError"

\* C4, as claimed: TypeError whenever the privileged actor or any candidate is
\* no member.
C4_AlwaysTypeError ==
    (HierarchyCall /\ (~IsMember(Privileged) \/ NonMembers # {})) =>
        out.exc = "TypeError"

\* the non-member candidates the loop reaches: not equal to the guild owner and
\* with no blocking candidate before them
ReachedNonMembers ==
    {i \in NonMembers :
        /\ ~PyEq(Candidates[i], guild.owner)
        /\ \A j \in Blocking : i < j}

\* C4, amended: TypeError whenever the privileged actor is no member; for a
\* member that is not the guild owner, in a guild, TypeError whenever a
\* candidate that is no member and does not equal the guild owner comes before
\* every blocking candidate (such a candidate is not skipped).
C4_TypeErrorWhenReached ==
    /\ (HierarchyCall /\ ~IsMember(Privileged)) => out.exc = "TypeError"
    /\ (NonOwnerCheck /\ ReachedNonMembers # {}) =>
          out = Raise("TypeError", Candidates[Least(ReachedNonMembers)])

\* a member of P's rank or lower, then a candidate that is no member: TypeError
C4_Witness ==
    /\ NonOwnerCheck
    /\ Len(Candidates) = 2
    /\ IsMember(Candidates[1])
    /\ ReachedNonMembers = {2}
    /\ out.exc = "TypeError"

\* values as targets holds them after an assignment of v
Normalized(v) == IF v.kind = "list" THEN v ELSE [kind |-> "list", items |-> <<v>>]

\* C5: targets is the normalization of the value assigned last (the mentions
\* of the message at construction): a lone actor a gives [a], a sequence is
\* kept as it is, and no other operation changes it.
C5_TargetsIsLastAssigned ==
    /\ (op = "__init__") => _target = arg
    /\ [][IF op' = "targets.setter"
          THEN /\ arg' \in Actors => _target'.items = <<arg'>>
               /\ arg' \notin Actors => _target' = arg'
               /\ _target' = Normalized(arg')
          ELSE _target' = _target]_vars

\* the handler has assigned a sequence that holds the same actor twice
C5_Witness ==
    /\ op = "targets.setter"
    /\ arg \in Lists
    /\ Len(arg.items) = 2
    /\ arg.items[1] = arg.items[2]
    /\ _target = arg

\* the ids of the actors of the TargetSet
TargetIds == {_target.items[i].id : i \in DOMAIN _target.items}

\* C6: is_author_target is is_user_target(author), and is_user_target(u) is
\* true iff u occurs in the TargetSet, by the equality of actors.
C6_TargetMembership ==
    /\ is_author_target(_target, author) = is_user_target(_target, author)
    /\ (pc = "returned" /\ op = "is_author_target") =>
          out = Return(<<is_user_target(_target, author)>>)
    /\ (pc = "returned" /\ op = "is_user_target") =>
          out = Return(<<arg.id \in TargetIds>>)

\* a user is found in targets that hold the member of the same id
C6_Witness ==
    /\ pc = "returned"
    /\ op = "is_user_target"
    /\ arg \in Users
    /\ arg.id \in TargetIds
    /\ \A i \in DOMAIN _target.items : _target.items[i] # arg
    /\ out = Return(<<TRUE>>)

\* the actors a call of whisper resolves
WhisperResolved ==
    IF arg.users = NoneVal THEN _target.items
    ELSE IF arg.users.kind = "list" THEN arg.users.items
    ELSE <<arg.users>>

\* C7: when whisper has returned, a send with the payload has been scheduled
\* for every resolved actor.
C7_WhisperDispatches ==
    (pc = "returned" /\ op = "whisper") =>
        \A i \in DOMAIN WhisperResolved :
            \E k \in DOMAIN scheduled :
                scheduled[k] = [to |-> WhisperResolved[i], payload |-> arg.payload]

\* C8: for a member P that is not the guild owner, a candidate equal to the
\* guild owner that no blocking candidate and no non-member precedes is
\* returned as (False, owner), whatever its own rank is.
C8_OwnerCandidateBlocks ==
    NonOwnerCheck =>
        \A i \in DOMAIN Candidates :
            (/\ PyEq(Candidates[i], guild.owner)
             /\ \A j \in 1..(i - 1) :
                   /\ IsMember(Candidates[j])
                   /\ ~Blocks(Candidates[j], Privileged))
            => out = Return(<<FALSE, Candidates[i]>>)

\* the owner, with a rank below P's, is returned
C8_Witness ==
    /\ NonOwnerCheck
    /\ Len(Candidates) = 2
    /\ ~Blocks(Candidates[1], Privileged)
    /\ IsMember(Candidates[2])
    /\ PyEq(Candidates[2], guild.owner)
    /\ Candidates[2].top_role < Privileged.top_role
    /\ out = Return(<<FALSE, Candidates[2]>>)

\* C9: for a member P that is not the guild owner, a non-member before every
\* blocking candidate makes the check raise TypeError, and a non-member after
\* the first blocking candidate is not looked at: the check returns
\* (False, first blocking candidate).
C9_ValidationInSequenceOrder ==
    NonOwnerCheck =>
        /\ (\E i \in NonMembers : ~Blocks(Candidates[i], Privileged)
                                  /\ \A j \in Blocking : i < j)
              => out.exc = "TypeError"
        /\ (Blocking # {} /\ \A i \in NonMembers : i >= Least(Blocking))
              => out = Return(<<FALSE, Candidates[Least(Blocking)]>>)

\* a non-member before the owner: TypeError
C9_Witness ==
    /\ NonOwnerCheck
    /\ Len(Candidates) = 2
    /\ ~IsMember(Candidates[1])
    /\ ~Blocks(Candidates[1], Privileged)
    /\ PyEq(Candidates[2], guild.owner)
    /\ out.exc = "TypeError"

\* the outcome of the hierarchy check of the state's last call, had it been
\* called with users
Explicitly(users) ==
    IF op = "is_author_above"
    THEN is_author_above(guild, _target, author, users)
    ELSE is_bot_above(guild, _target, me, users)

\* C10: a hierarchy check without candidates has the outcome of the check with
\* the TargetSet passed, a check of a lone m the outcome of the check of [m],
\* and no check and no membership query changes the TargetSet.
C10_DefaultAndLoneCandidates ==
    [][/\ (HierarchyCall' /\ arg' = NoneVal) => out' = Explicitly(_target)'
       /\ (HierarchyCall' /\ arg' \in Actors) =>
             out' = Explicitly([kind |-> "list", items |-> <<arg>>])'
       /\ op' \in {"is_author_above", "is_bot_above", "is_author_target",
                   "is_user_target"} => _target' = _target]_vars

\* a check without candidates that the second of two targets blocks
C10_Witness ==
    /\ HierarchyCall
    /\ arg = NoneVal
    /\ Len(_target.items) = 2
    /\ out.exc = "none"
    /\ out.value[1] = FALSE
    /\ out.value[2] = _target.items[2]

====
